---- MODULE Spec2Model ----
(***************************************************************************)
(* Model of src/src/ffmpeg.ts: the smart-trim orchestrator                 *)
(* postProcessRecording and the helpers it calls.  Times are integer       *)
(* milliseconds: a keyframe stamp is the value of pts_time * 1000.  Every   *)
(* call of execute() is an entry of `calls`; an external process finishes  *)
(* (successfully or not) in a later step.                                  *)
(***************************************************************************)
EXTENDS Integers, Sequences, FiniteSets, TLC

\* ---------------------------------------------------------------- bounds
MaxTime == 4
MaxKeyframes == 2
MaxCrop == 2
MaxFrame == 5
MaxSilences == 1

\* ------------------------------------------------------------- constants
FULL_CROP_WIDTH == 1920
SMARTTRIM_FILE_SUFFIX_START == ".smarttrim.start"
SMARTTRIM_FILE_SUFFIX_MID == ".smarttrim.mid"
SMARTTRIM_FILE_SUFFIX_END == ".smarttrim.end"
SMARTTRIM_FILE_SUFFIX_FINAL == ".smarttrim.FINAL.mp4"

\* the value of a promise that resolved to null, and an absent argument
Null == "<null>"
NoArg == -1

\* ---------------------------------------------------------------- inputs
\* keyframe timestamps (pts_time * 1000) of the mocked probe in the tests
TestKeyframes ==
  <<140140, 142142, 144144, 146146, 148148, 738738, 740740, 742742, 744744, 746746>>

TestStarts == {144311, 146146, 146130}
TestEnds == {744077, 742742}

RECURSIVE SetToAscending(_)
SetToAscending(S) ==
  IF S = {} THEN <<>>
  ELSE LET m == CHOOSE x \in S : \A y \in S : x <= y
       IN <<m>> \o SetToAscending(S \ {m})

\* the frame lists a keyframe probe can print: ascending presentation times
SmallKeyframeLists ==
  { SetToAscending(S) : S \in { T \in SUBSET (0..MaxTime) : Cardinality(T) <= MaxKeyframes } }

\* a request is (start, end) with start <= end, or end = 0 (end omitted)
SmallRequests ==
  { <<s, e>> \in (0..MaxTime) \X (0..MaxTime) : s <= e \/ e = 0 }

\* the request of the tests of the direct path
DirectTestStart == 124687
DirectTestEnd == 367110

\* crop samples: ascending times, as detectCropArea reports them
CropTimes == {0, 156800, 260000}
CropWidths == {1728, FULL_CROP_WIDTH}

CropLists ==
  { c \in UNION { [1..n -> [time : CropTimes, width : CropWidths]] : n \in 0..MaxCrop } :
      \A i \in 1..(Len(c) - 1) : c[i].time < c[i + 1].time }

\* the times at which a compiled expression is evaluated
QueryTimes == {0, 1, 156799, 156800, 156801, 259999, 260000, 300000}

StreamCounts == {2, 3}
Bitrates == {4590588}

VARIABLES
  inputPath, outputPath, start, end, smartTrim, cropParameters, \* the request
  framesList,          \* what the keyframe probe prints for inputPath
  pc,                  \* position of postProcessRecording
  calls,               \* every execute() call so far, in call order
  hasThumbnail, keyframeBoundaries, videoBitrate,
  region,              \* the three promises handed to Promise.all
  cropWidth, scaleWidth, overlayPosition,  \* calculateScaleWidth / calculateOverlayPosition
  outputLines,         \* the parsed stderr of the boundary detection pass
  dpc,                 \* position of detectPotentialBoundaries
  evaluated,           \* the strategies it evaluated, with their candidates
  boundaries,          \* what it returned
  inFlight             \* the smart-trim requests running side by side

reqVars == <<inputPath, outputPath, start, end, smartTrim, cropParameters, framesList>>
calcVars == <<cropWidth, scaleWidth, overlayPosition>>
detectVars == <<outputLines, dpc, evaluated, boundaries>>
vars == <<inputPath, outputPath, start, end, smartTrim, cropParameters, framesList,
          pc, calls, hasThumbnail, keyframeBoundaries, videoBitrate, region,
          cropWidth, scaleWidth, overlayPosition,
          outputLines, dpc, evaluated, boundaries, inFlight>>

Tasks == {"mid", "start", "end"}

\* ------------------------------------------------------- execute() calls
Call(kind, cmd, ss, t, to, bitrate, out, stdin, thumb) ==
  [kind |-> kind, cmd |-> cmd, input |-> inputPath, ss |-> ss, t |-> t, to |-> to,
   bitrate |-> bitrate, out |-> out, stdin |-> stdin, thumb |-> thumb,
   args |-> <<>>, status |-> "running"]

Kinds(k) == { i \in 1..Len(calls) : calls[i].kind = k }
Issued(k) == Kinds(k) # {}
IndexOf(k) == CHOOSE i \in Kinds(k) : TRUE

Finish(k, ok) ==
  [i \in 1..Len(calls) |->
     IF calls[i].kind = k /\ calls[i].status = "running"
     THEN [calls[i] EXCEPT !.status = IF ok THEN "ok" ELSE "failed"]
     ELSE calls[i]]

\* ------------------------------------------------- getKeyframeBoundaries
\* framesList.find(frame => frame.pts_time * 1000 >= start): index, 0 = undefined
find_gt(list, s) ==
  IF \E i \in 1..Len(list) : list[i] > s
  THEN CHOOSE i \in 1..Len(list) : list[i] > s /\ \A j \in 1..(i - 1) : ~(list[j] > s)
  ELSE 0

find(list, s) ==
  IF \E i \in 1..Len(list) : list[i] >= s
  THEN CHOOSE i \in 1..Len(list) : list[i] >= s /\ \A j \in 1..(i - 1) : ~(list[j] >= s)
  ELSE 0

\* framesList.findLast(frame => frame.pts_time * 1000 <= end): index, 0 = undefined
findLast(list, e) ==
  IF \E i \in 1..Len(list) : list[i] <= e
  THEN CHOOSE i \in 1..Len(list) : list[i] <= e /\ \A j \in (i + 1)..Len(list) : ~(list[j] <= e)
  ELSE 0

\* a missing boundary falls back to the request's own bound instead of throwing
getKeyframeBoundaries_fallback(list, s, e) ==
  LET f == find(list, s)
      l == findLast(list, e)
  IN [threw |-> FALSE,
      value |-> << IF f = 0 THEN s ELSE list[f], IF l = 0 THEN e ELSE list[l] >>]

\* reading .pts_time of undefined throws a TypeError
getKeyframeBoundaries(list, s, e) ==
  LET f == find(list, s)
      l == findLast(list, e)
  IN IF f = 0 \/ l = 0
     THEN [threw |-> TRUE, value |-> <<>>]
     ELSE [threw |-> FALSE, value |-> <<list[f], list[l]>>]

\* --------------------------------------------------------- the fragments
\* the cap is rendered whatever its span
renderStartCap_always(path, s, e, bitrate) ==
  << Call("renderStartCap", "ffmpeg", s, e - s, NoArg, bitrate,
          path \o SMARTTRIM_FILE_SUFFIX_START, <<>>, FALSE) >>

\* the execute() calls renderStartCap issues: none when it returns null
renderStartCap(path, s, e, bitrate) ==
  IF e - s = 0 THEN <<>>
  ELSE << Call("renderStartCap", "ffmpeg", s, e - s, NoArg, bitrate,
               path \o SMARTTRIM_FILE_SUFFIX_START, <<>>, FALSE) >>

\* the end cap is rendered whatever its span
renderEndCap_always(path, s, e, bitrate) ==
  << Call("renderEndCap", "ffmpeg", s, e - s, NoArg, bitrate,
          path \o SMARTTRIM_FILE_SUFFIX_END, <<>>, FALSE) >>

renderEndCap(path, s, e, bitrate) ==
  IF e - s = 0 THEN <<>>
  ELSE << Call("renderEndCap", "ffmpeg", s, e - s, NoArg, bitrate,
               path \o SMARTTRIM_FILE_SUFFIX_END, <<>>, FALSE) >>

copyMidSection(path, s, e) ==
  << Call("copyMidSection", "ffmpeg", s, e - s, NoArg, NoArg,
          path \o SMARTTRIM_FILE_SUFFIX_MID, <<>>, FALSE) >>

TaskKind(task) ==
  CASE task = "mid" -> "copyMidSection"
    [] task = "start" -> "renderStartCap"
    [] task = "end" -> "renderEndCap"

\* the promise of a task right after the call: resolved to null or pending
Promise(issued) ==
  IF issued = <<>> THEN [state |-> "fulfilled", value |-> Null]
  ELSE [state |-> "pending", value |-> issued[1].out]

\* --------------------------------------------------------- Promise.all
\* fulfils as soon as the mid copy has, whatever the caps are doing
PromiseAll_midOnly(r) ==
  IF \E t \in Tasks : r[t].state = "rejected" THEN "rejected"
  ELSE IF r["mid"].state = "fulfilled" THEN "fulfilled"
  ELSE "pending"

\* waits for all three and goes on whatever their outcome
PromiseAll_settled(r) ==
  IF \A t \in Tasks : r[t].state \in {"fulfilled", "rejected"} THEN "fulfilled"
  ELSE "pending"

\* rejects with the first rejection, fulfils when all three have fulfilled
PromiseAll(r) ==
  IF \E t \in Tasks : r[t].state = "rejected" THEN "rejected"
  ELSE IF \A t \in Tasks : r[t].state = "fulfilled" THEN "fulfilled"
  ELSE "pending"

\* -------------------------------------------------- concatSmartTrimFiles
\* the concat writes straight to the output
temporaryPath_none(out) == out

temporaryPath(out) == out \o SMARTTRIM_FILE_SUFFIX_FINAL

Line(path) == "file '" \o path \o "'"

\* the start cap is pushed behind the mid section instead of unshifted
Instructions_pushed(startPath, midPath, endPath) ==
  << Line(midPath) >>
  \o (IF startPath # Null THEN << Line(startPath) >> ELSE <<>>)
  \o (IF endPath # Null THEN << Line(endPath) >> ELSE <<>>)

Instructions(startPath, midPath, endPath) ==
  (IF startPath # Null THEN << Line(startPath) >> ELSE <<>>)
  \o << Line(midPath) >>
  \o (IF endPath # Null THEN << Line(endPath) >> ELSE <<>>)

\* instructions.forEach: push the line, then push "\n"
RECURSIVE InstructionStream(_)
InstructionStream(lines) ==
  IF lines = <<>> THEN <<>>
  ELSE << Head(lines), "\n" >> \o InstructionStream(Tail(lines))

concatSmartTrimFiles(out, startPath, midPath, endPath) ==
  << Call("concatSmartTrimFiles", "ffmpeg", NoArg, NoArg, NoArg, NoArg, out,
          InstructionStream(Instructions(startPath, midPath, endPath)), FALSE) >>

restoreSmartTrimMetadata(out, thumb) ==
  << Call("restoreSmartTrimMetadata", "ffmpeg", NoArg, NoArg, NoArg, NoArg, out, <<>>, thumb) >>

\* ------------------------------------------------ argument formatting
\* `${ms / 1000}`: the shortest decimal of ms / 1000 (ms >= 0)
Pad(r, width) ==
  (IF width = 3 /\ r < 10 THEN "00"
   ELSE IF (width = 3 /\ r < 100) \/ (width = 2 /\ r < 10) THEN "0"
   ELSE "") \o ToString(r)

FormatSeconds(ms) ==
  LET q == ms \div 1000
      r == ms % 1000
  IN IF r = 0 THEN ToString(q)
     ELSE ToString(q) \o "." \o
          (IF r % 10 # 0 THEN Pad(r, 3)
           ELSE IF r % 100 # 0 THEN Pad(r \div 10, 2)
           ELSE ToString(r \div 100))

\* array.join(sep)
RECURSIVE Join(_, _)
Join(strings, sep) ==
  IF strings = <<>> THEN ""
  ELSE IF Len(strings) = 1 THEN strings[1]
  ELSE strings[1] \o sep \o Join(Tail(strings), sep)

\* ------------------------------------------ the time-keyed filter compiler
\* Math.round(n / d) for d > 0: halves go up
MathRound(n, d) == (2 * n + d) \div (2 * d)

\* rounds to the nearest integer instead of the nearest even one
calculateScaleWidth_nearest(w) ==
  MathRound(FULL_CROP_WIDTH * FULL_CROP_WIDTH, w)

calculateScaleWidth(w) ==
  MathRound(FULL_CROP_WIDTH * FULL_CROP_WIDTH, w * 2) * 2

calculateOverlayPosition(w) ==
  MathRound(w - FULL_CROP_WIDTH, 2)

calcValue(q, w) ==
  IF q = "overlay" THEN calculateOverlayPosition(w) ELSE calculateScaleWidth(w)

last(list) == list[Len(list)]
init(list) == SubSeq(list, 1, Len(list) - 1)

\* the samples are folded from the first one on instead of from the last
RECURSIVE generateTimeSequence_fromHead(_, _)
generateTimeSequence_fromHead(q, crop) ==
  IF crop = <<>> THEN [clauses |-> <<>>, default |-> calcValue(q, FULL_CROP_WIDTH)]
  ELSE IF Head(crop).time = 0
       THEN [clauses |-> <<>>, default |-> calcValue(q, Head(crop).width)]
       ELSE LET rest == generateTimeSequence_fromHead(q, Tail(crop))
            IN [clauses |-> << [time |-> Head(crop).time,
                                value |-> calcValue(q, Head(crop).width)] >>
                            \o rest.clauses,
                default |-> rest.default]

\* the first sample is the innermost value whatever its time
RECURSIVE generateTimeSequence_firstTerminal(_, _)
generateTimeSequence_firstTerminal(q, crop) ==
  IF crop = <<>> THEN [clauses |-> <<>>, default |-> calcValue(q, FULL_CROP_WIDTH)]
  ELSE IF last(crop).time = 0 \/ Len(crop) = 1
       THEN [clauses |-> <<>>, default |-> calcValue(q, last(crop).width)]
       ELSE LET rest == generateTimeSequence_firstTerminal(q, init(crop))
            IN [clauses |-> << [time |-> last(crop).time,
                                value |-> calcValue(q, last(crop).width)] >>
                            \o rest.clauses,
                default |-> rest.default]

\* the nested expression if(gte(t,T1),V1,if(gte(t,T2),V2,...D)): its
\* conditions from the outside in, and the innermost value D
RECURSIVE generateTimeSequence(_, _)
generateTimeSequence(q, crop) ==
  IF crop = <<>> THEN [clauses |-> <<>>, default |-> calcValue(q, FULL_CROP_WIDTH)]
  ELSE IF last(crop).time = 0
       THEN [clauses |-> <<>>, default |-> calcValue(q, last(crop).width)]
       ELSE LET rest == generateTimeSequence(q, init(crop))
            IN [clauses |-> << [time |-> last(crop).time,
                                value |-> calcValue(q, last(crop).width)] >>
                            \o rest.clauses,
                default |-> rest.default]

\* the text of the expression
RECURSIVE TimeSequenceText(_)
TimeSequenceText(e) ==
  IF e.clauses = <<>> THEN ToString(e.default)
  ELSE "if(gte(t," \o FormatSeconds(e.clauses[1].time) \o ")," \o ToString(e.clauses[1].value)
       \o "," \o TimeSequenceText([e EXCEPT !.clauses = Tail(e.clauses)]) \o ")"

\* what ffmpeg computes from the expression at time t (ms): gte(t, T/1000)
\* is true iff t >= T
RECURSIVE EvalTimeSequence(_, _)
EvalTimeSequence(e, t) ==
  IF e.clauses = <<>> THEN e.default
  ELSE IF t >= e.clauses[1].time THEN e.clauses[1].value
  ELSE EvalTimeSequence([e EXCEPT !.clauses = Tail(e.clauses)], t)

ThumbnailStage(s) == "[1:2]setpts=PTS+" \o FormatSeconds(s) \o "/TB[tn]"

\* the thumbnail stage comes first
FilterStages_thumbFirst(s, crop, thumb) ==
  (IF thumb THEN << ThumbnailStage(s) >> ELSE <<>>)
  \o (IF Len(crop) > 0
      THEN << "nullsrc=size=1920x1080:r=29.97[base]",
              "[base][0:0]overlay='" \o TimeSequenceText(generateTimeSequence("overlay", crop))
                \o "':0:shortest=1[o]",
              "[o]scale='" \o TimeSequenceText(generateTimeSequence("scale", crop))
                \o "':-1:eval=frame:flags=bicubic[s]",
              "[s]crop=1920:1080:0:0[c]" >>
      ELSE <<>>)

\* the stages generateFilterChain joins with ';'
FilterStages(s, crop, thumb) ==
  (IF Len(crop) > 0
   THEN << "nullsrc=size=1920x1080:r=29.97[base]",
           "[base][0:0]overlay='" \o TimeSequenceText(generateTimeSequence("overlay", crop))
             \o "':0:shortest=1[o]",
           "[o]scale='" \o TimeSequenceText(generateTimeSequence("scale", crop))
             \o "':-1:eval=frame:flags=bicubic[s]",
           "[s]crop=1920:1080:0:0[c]" >>
   ELSE <<>>)
  \o (IF thumb THEN << ThumbnailStage(s) >> ELSE <<>>)

\* the thumbnail is left out of the graph
generateFilterChain_noThumbnail(s, crop, thumb) ==
  LET filters == Join(FilterStages(s, crop, FALSE), ";")
  IN IF filters # "" THEN << "-filter_complex", filters >> ELSE <<>>

generateFilterChain(s, crop, thumb) ==
  LET filters == Join(FilterStages(s, crop, thumb), ";")
  IN IF filters # "" THEN << "-filter_complex", filters >> ELSE <<>>

\* ------------------------------------------------- the direct invocation
\* config.threadLimit of the test configuration
threadLimit == 0

\* '-to' is passed whatever end is
EndArguments_always(e) == << "-to", FormatSeconds(e) >>

EndArguments(e) == IF e # 0 THEN << "-to", FormatSeconds(e) >> ELSE <<>>

\* the video is always stream-copied
VideoArguments_copy(crop) == << "-map", "0:0" >>

VideoArguments(crop) ==
  IF Len(crop) > 0
  THEN << "-map", "[c]", "-crf", "19", "-preset", "veryfast", "-codec:v:0", "libx264" >>
  ELSE << "-map", "0:0" >>

getFfmpegPostProcessArguments(inp, out, s, e, crop, thumb) ==
  << "-y" >>
  \o (IF threadLimit > 0 THEN << "-threads", ToString(threadLimit) >> ELSE <<>>)
  \o << "-i", inp >>
  \o (IF thumb THEN << "-i", inp >> ELSE <<>>)
  \o << "-ss", FormatSeconds(s) >>
  \o EndArguments(e)
  \o << "-codec", "copy" >>
  \o generateFilterChain(s, crop, thumb)
  \o VideoArguments(crop)
  \o << "-map", "0:1" >>
  \o (IF thumb
      THEN << "-map", "[tn]", "-codec:v:1", "mjpeg", "-disposition:v:1", "attached_pic" >>
      ELSE <<>>)
  \o << "-map_metadata", "0", "-f", "mp4", out >>

\* execute('ffmpeg', args) of the direct path
postProcess(inp, out, s, e, crop, thumb) ==
  << [ Call("postProcess", "ffmpeg", s, NoArg, IF e # 0 THEN e ELSE NoArg, NoArg, out,
            <<>>, thumb)
       EXCEPT !.args = getFfmpegPostProcessArguments(inp, out, s, e, crop, thumb) ] >>

\* ------------------------------------------------------ the path decision
UseSmartTrim_ignoringCrop(st, crop) == st

UseSmartTrim(st, crop) == st /\ Len(crop) = 0

\* ------------------------------------------------------------------ Init
\* nothing of postProcessRecording has run
RunIdle ==
  /\ pc = "idle"
  /\ calls = <<>>
  /\ hasThumbnail = FALSE
  /\ keyframeBoundaries = <<>>
  /\ videoBitrate = NoArg
  /\ region = [t \in Tasks |-> [state |-> "idle", value |-> Null]]

\* the width calculations are not in use
CalcIdle ==
  /\ cropWidth = FULL_CROP_WIDTH
  /\ scaleWidth = NoArg
  /\ overlayPosition = NoArg

\* no requests run side by side
PairIdle == inFlight = <<>>

\* the boundary detector is not in use
DetectIdle ==
  /\ outputLines = [blackframes |-> <<>>, silences |-> <<>>]
  /\ dpc = "idle"
  /\ evaluated = <<>>
  /\ boundaries = <<>>

Init ==
  /\ inputPath \in {"inputPath.mp4"}
  /\ outputPath \in {"outputPath.mp4"}
  /\ \/ /\ framesList \in SmallKeyframeLists
        /\ \E r \in SmallRequests : start = r[1] /\ end = r[2]
        /\ cropParameters = <<>>
     \/ /\ framesList = TestKeyframes
        /\ start \in TestStarts
        /\ end \in TestEnds
        /\ cropParameters = <<>>
     \/ \* the frames are never probed when there are crop samples
        /\ framesList = <<>>
        /\ \/ \E r \in SmallRequests : start = r[1] /\ end = r[2]
           \/ start = DirectTestStart /\ end = DirectTestEnd
        /\ cropParameters \in CropLists
  /\ smartTrim \in BOOLEAN
  /\ RunIdle
  /\ CalcIdle
  /\ DetectIdle
  /\ PairIdle

\* --------------------------------------------------------------- actions
\* postProcessRecording is called: getStreamCount issues its probe
postProcessRecording ==
  /\ pc = "idle"
  /\ calls' = << Call("getStreamCount", "ffprobe", NoArg, NoArg, NoArg, NoArg, "", <<>>, FALSE) >>
  /\ pc' = "getStreamCount"
  /\ UNCHANGED <<reqVars, inFlight, calcVars, detectVars, hasThumbnail, keyframeBoundaries, videoBitrate, region>>

\* a failed process is started once more before the call gives up
Reject_retry(k) ==
  IF Cardinality(Kinds(k)) < 2
  THEN /\ calls' = Append(Finish(k, FALSE), [calls[IndexOf(k)] EXCEPT !.status = "running"])
       /\ pc' = pc
  ELSE /\ calls' = Finish(k, FALSE)
       /\ pc' = "rejected"

\* the awaited process fails: the rejection leaves postProcessRecording
Reject(k) ==
  /\ calls' = Finish(k, FALSE)
  /\ pc' = "rejected"

\* the stream-count probe ends; on success the path is chosen
getStreamCountDone ==
  /\ pc = "getStreamCount"
  /\ \/ /\ Reject("getStreamCount")
        /\ UNCHANGED <<hasThumbnail>>
     \/ \E n \in StreamCounts :
          /\ hasThumbnail' = (n > 2)
          /\ IF UseSmartTrim(smartTrim, cropParameters)
             THEN /\ calls' = Finish("getStreamCount", TRUE)
                       \o << Call("getKeyframeBoundaries", "ffprobe", start, NoArg, end,
                                  NoArg, "", <<>>, FALSE) >>
                  /\ pc' = "getKeyframeBoundaries"
             ELSE /\ calls' = Finish("getStreamCount", TRUE)
                       \o postProcess(inputPath, outputPath, start, end,
                                      cropParameters, n > 2)
                  /\ pc' = "postProcess"
  /\ UNCHANGED <<reqVars, inFlight, calcVars, detectVars, keyframeBoundaries, videoBitrate, region>>

\* the keyframe probe ends; the boundaries are selected or the call throws
getKeyframeBoundariesDone ==
  /\ pc = "getKeyframeBoundaries"
  /\ \/ /\ Reject("getKeyframeBoundaries")
        /\ UNCHANGED keyframeBoundaries
     \/ LET b == getKeyframeBoundaries(framesList, start, end)
        IN IF b.threw
           THEN /\ calls' = Finish("getKeyframeBoundaries", TRUE)
                /\ pc' = "rejected"
                /\ UNCHANGED keyframeBoundaries
           ELSE /\ keyframeBoundaries' = b.value
                /\ calls' = Finish("getKeyframeBoundaries", TRUE)
                     \o << Call("getBitrate", "ffprobe", NoArg, NoArg, NoArg, NoArg, "",
                                <<>>, FALSE) >>
                /\ pc' = "getBitrate"
  /\ UNCHANGED <<reqVars, inFlight, calcVars, detectVars, hasThumbnail, videoBitrate, region>>

\* the caps are started ahead of the mid copy
Started_capsFirst(mid, sc, ec) == sc \o ec \o mid

\* the execute() calls made while the array given to Promise.all is built:
\* each element runs up to its first pending await before the next is called
Started(mid, sc, ec) == mid \o sc \o ec

\* the bitrate probe ends; the three fragments are started in one step
getBitrateDone ==
  /\ pc = "getBitrate"
  /\ \/ /\ Reject("getBitrate")
        /\ UNCHANGED <<videoBitrate, region>>
     \/ \E b \in Bitrates :
          LET mid == copyMidSection(inputPath, keyframeBoundaries[1], keyframeBoundaries[2])
              sc  == renderStartCap(inputPath, start, keyframeBoundaries[1], b)
              ec  == renderEndCap(inputPath, keyframeBoundaries[2], end, b)
          IN /\ videoBitrate' = b
             /\ calls' = Finish("getBitrate", TRUE) \o Started(mid, sc, ec)
             /\ region' = [t \in Tasks |->
                             CASE t = "mid" -> Promise(mid)
                               [] t = "start" -> Promise(sc)
                               [] t = "end" -> Promise(ec)]
             /\ pc' = "parallel"
  /\ UNCHANGED <<reqVars, inFlight, calcVars, detectVars, hasThumbnail, keyframeBoundaries>>

\* one fragment's process ends; Promise.all is settled by it or stays pending.
\* After a rejection the remaining processes keep running and end later.
fragmentDone(task) ==
  /\ region[task].state = "pending"
  /\ \E ok \in BOOLEAN :
       LET r == [region EXCEPT ![task].state = IF ok THEN "fulfilled" ELSE "rejected"]
           done == Finish(TaskKind(task), ok)
       IN /\ region' = r
          /\ IF pc # "parallel"
             THEN /\ calls' = done
                  /\ pc' = pc
             ELSE CASE PromiseAll(r) = "rejected" ->
                         /\ calls' = done
                         /\ pc' = "rejected"
                    [] PromiseAll(r) = "fulfilled" ->
                         /\ calls' = [i \in 1..(Len(calls) + 1) |->
                                        IF i <= Len(calls) THEN done[i]
                                        ELSE concatSmartTrimFiles(
                                               temporaryPath(outputPath),
                                               r["start"].value, r["mid"].value,
                                               r["end"].value)[1]]
                         /\ pc' = "concatSmartTrimFiles"
                    [] OTHER ->
                         /\ calls' = done
                         /\ pc' = pc
  /\ UNCHANGED <<reqVars, inFlight, calcVars, detectVars, hasThumbnail, keyframeBoundaries, videoBitrate>>

\* the concat process ends
concatSmartTrimFilesDone ==
  /\ pc = "concatSmartTrimFiles"
  /\ \/ Reject("concatSmartTrimFiles")
     \/ /\ calls' = Finish("concatSmartTrimFiles", TRUE)
             \o restoreSmartTrimMetadata(outputPath, hasThumbnail)
        /\ pc' = "restoreSmartTrimMetadata"
  /\ UNCHANGED <<reqVars, inFlight, calcVars, detectVars, hasThumbnail, keyframeBoundaries, videoBitrate, region>>

\* the metadata-restore process ends
restoreSmartTrimMetadataDone ==
  /\ pc = "restoreSmartTrimMetadata"
  /\ \/ Reject("restoreSmartTrimMetadata")
     \/ /\ calls' = Finish("restoreSmartTrimMetadata", TRUE)
        /\ pc' = "resolved"
  /\ UNCHANGED <<reqVars, inFlight, calcVars, detectVars, hasThumbnail, keyframeBoundaries, videoBitrate, region>>

\* the single ffmpeg process of the direct path ends
postProcessDone ==
  /\ pc = "postProcess"
  /\ \/ Reject("postProcess")
     \/ /\ calls' = Finish("postProcess", TRUE)
        /\ pc' = "resolved"
  /\ UNCHANGED <<reqVars, inFlight, calcVars, detectVars, hasThumbnail, keyframeBoundaries, videoBitrate, region>>

Next ==
  \/ postProcessRecording
  \/ getStreamCountDone
  \/ getKeyframeBoundariesDone
  \/ getBitrateDone
  \/ \E task \in Tasks : fragmentDone(task)
  \/ concatSmartTrimFilesDone
  \/ restoreSmartTrimMetadataDone
  \/ postProcessDone

Spec == Init /\ [][Next]_vars

\* ------------------------------------------- the width calculations alone
\* postProcessRecording at rest, with a fixed request
PostIdle ==
  /\ inputPath = "inputPath.mp4"
  /\ outputPath = "outputPath.mp4"
  /\ start = 0
  /\ end = 0
  /\ smartTrim = FALSE
  /\ cropParameters = <<>>
  /\ framesList = <<>>
  /\ RunIdle

CalcInit ==
  /\ PostIdle
  /\ DetectIdle
  /\ PairIdle
  /\ cropWidth \in 1..FULL_CROP_WIDTH
  /\ scaleWidth = NoArg
  /\ overlayPosition = NoArg

\* both quantities of one crop sample are computed, as generateFilterChain does
calculate ==
  /\ scaleWidth = NoArg
  /\ overlayPosition' = calculateOverlayPosition(cropWidth)
  /\ scaleWidth' = calculateScaleWidth(cropWidth)
  /\ UNCHANGED <<reqVars, inFlight, pc, calls, hasThumbnail, keyframeBoundaries, videoBitrate, region,
                 cropWidth, detectVars>>

CalcNext == calculate

CalcSpec == CalcInit /\ [][CalcNext]_vars

\* ------------------------------------------------- the boundary detector
\* an optional field that is not set reads as undefined
Nullish(x, d) == IF x = NoArg THEN d ELSE x

\* minSilenceSeconds is held in thousandths of a second
BOUNDARY_STRATEGIES ==
  << [name |-> "black-logo", filters |-> {11}, maxSkip |-> NoArg,
      minSilenceSeconds |-> 1500, minFrames |-> 5],
     [name |-> "white-logo", filters |-> {13}, maxSkip |-> NoArg,
      minSilenceSeconds |-> 1500, minFrames |-> 5],
     [name |-> "white-borders-logo", filters |-> {15}, maxSkip |-> NoArg,
      minSilenceSeconds |-> 1500, minFrames |-> 5],
     [name |-> "black-logo-ai-subtitles", filters |-> {17}, maxSkip |-> NoArg,
      minSilenceSeconds |-> 1500, minFrames |-> 5],
     [name |-> "black-no-logo-ai-subtitles", filters |-> {19}, maxSkip |-> NoArg,
      minSilenceSeconds |-> 1500, minFrames |-> 5],
     [name |-> "no-logo", filters |-> {20}, maxSkip |-> NoArg,
      minSilenceSeconds |-> 100, minFrames |-> 3],
     [name |-> "newsline", filters |-> {22}, maxSkip |-> NoArg,
      minSilenceSeconds |-> 0, minFrames |-> 1] >>

NEWS_BANNER_STRATEGY ==
  [name |-> "news-banner-background", filters |-> {13}, maxSkip |-> 120,
   minSilenceSeconds |-> NoArg, minFrames |-> 120]

\* the blackframe filters that report on one frame of the recording
FrameReports == {{}, {11}, {20}, {11, 22}}

\* the recording runs at 30000/1001 frames a second
FrameTime(n) == MathRound(n * 1001, 30)

\* the blackframe lines of one pass: frame by frame, filter by filter
RECURSIVE BlackframeLines(_, _)
BlackframeLines(reports, n) ==
  IF n > MaxFrame THEN <<>>
  ELSE [i \in 1..Cardinality(reports[n]) |->
          [filterNum |-> SetToAscending(reports[n])[i], frameNum |-> n,
           time |-> FrameTime(n)]]
       \o BlackframeLines(reports, n + 1)

\* the lines in the opposite order
Reverse(lines) == [i \in 1..Len(lines) |-> lines[Len(lines) + 1 - i]]

BlackframeOutputs ==
  UNION { {BlackframeLines(r, 1), Reverse(BlackframeLines(r, 1))} :
          r \in [1..MaxFrame -> FrameReports] }

\* the lines of the news banner pass: its one blackframe filter is number 13
BannerOutputs ==
  { SelectSeq([n \in 1..MaxFrame |-> [filterNum |-> 13, frameNum |-> n, time |-> FrameTime(n)]],
              LAMBDA line : line.frameNum \in frames) : frames \in SUBSET (1..MaxFrame) }

\* silencedetect lines: silence_end and silence_duration, in milliseconds
SilenceLines ==
  { [endTime |-> 200, duration |-> 200],
    [endTime |-> 2000, duration |-> 2000],
    [endTime |-> 250, duration |-> 150] }

RECURSIVE ByEndTime(_)
ByEndTime(S) ==
  IF S = {} THEN <<>>
  ELSE LET m == CHOOSE x \in S : \A y \in S : x.endTime <= y.endTime
       IN <<m>> \o ByEndTime(S \ {m})

SilenceOutputs ==
  { ByEndTime(T) : T \in { U \in SUBSET SilenceLines : Cardinality(U) <= MaxSilences } }

findSilences(lines) ==
  [i \in 1..Len(lines.silences) |->
     [startTime |-> lines.silences[i].endTime - lines.silences[i].duration,
      endTime |-> lines.silences[i].endTime]]

\* the interval tree: every silence with its length as the stored value
CandidateWindows(silences) ==
  [i \in 1..Len(silences) |->
     [low |-> silences[i].startTime, high |-> silences[i].endTime,
      value |-> silences[i].endTime - silences[i].startTime]]

\* IntervalTree.search: the values of the intervals that overlap [low, high]
search(tree, low, high) ==
  LET hits == SelectSeq(tree, LAMBDA iv : iv.low <= high /\ iv.high >= low)
  IN [i \in 1..Len(hits) |-> hits[i].value]

head(list) == IF Len(list) = 0 THEN NoArg ELSE list[1]

\* a measurement outside every silence is dropped whatever the strategy
SilenceGate_insideOnly(strategy, candidateWindows, time) ==
  LET found == head(search(candidateWindows, time, time))
  IN found # NoArg /\ found # 0

\* head(search(time, time)) ?? 0 >= (minSilenceSeconds ?? 0): the comparison
\* binds tighter than ??, so a found interval decides by its value being truthy
SilenceGate(strategy, candidateWindows, time) ==
  LET found == head(search(candidateWindows, time, time))
  IN IF found # NoArg THEN found # 0
     ELSE 0 >= Nullish(strategy.minSilenceSeconds, 0)

\* compareFunc(['filterNum', 'frame']): the measurements have no property
\* 'frame', so the second key is undefined on both sides and never decides
compareFunc(a, b) ==
  IF a.filterNum = b.filterNum THEN 0
  ELSE IF a.filterNum < b.filterNum THEN -1 ELSE 1

\* Array.prototype.sort is stable: insertion after the last element not greater
RECURSIVE sort(_)
sort(list) ==
  IF Len(list) = 0 THEN <<>>
  ELSE LET sorted == sort(init(list))
           x == last(list)
           keep == { i \in 1..Len(sorted) : compareFunc(sorted[i], x) <= 0 }
           n == Cardinality(keep)
       IN SubSeq(sorted, 1, n) \o <<x>> \o SubSeq(sorted, n + 1, Len(sorted))

GatedMeasurements(lines, strategy, candidateWindows) ==
  sort(SelectSeq(lines.blackframes,
                 LAMBDA m : /\ m.filterNum \in strategy.filters
                            /\ SilenceGate(strategy, candidateWindows, m.time)))

\* joins a frame whose number is strictly less than maxSkip ahead
Joins_strict(strategy, lastFrame, frame) ==
  /\ frame.frameNum - lastFrame.frameNum < Nullish(strategy.maxSkip, 1)
  /\ frame.filterNum = lastFrame.filterNum

Joins(strategy, lastFrame, frame) ==
  /\ frame.frameNum - lastFrame.frameNum <= Nullish(strategy.maxSkip, 1)
  /\ frame.filterNum = lastFrame.filterNum

\* the reduce of findBlackframeGroups
RECURSIVE FrameGroups(_, _)
FrameGroups(strategy, frames) ==
  IF Len(frames) = 0 THEN <<>>
  ELSE LET frameGroups == FrameGroups(strategy, init(frames))
           frame == last(frames)
       IN IF Len(frameGroups) = 0 THEN << <<frame>> >>
          ELSE IF Joins(strategy, last(last(frameGroups)), frame)
               THEN [frameGroups EXCEPT ![Len(frameGroups)] = Append(@, frame)]
               ELSE Append(frameGroups, <<frame>>)

DetectedFeature(frameGroup) ==
  [start |-> frameGroup[1].time, end |-> last(frameGroup).time,
   firstFrame |-> frameGroup[1].frameNum, lastFrame |-> last(frameGroup).frameNum]

findBlackframeGroups(lines, strategy, candidateWindows) ==
  LET groups == SelectSeq(FrameGroups(strategy, GatedMeasurements(lines, strategy, candidateWindows)),
                          LAMBDA g : Len(g) >= strategy.minFrames)
  IN [i \in 1..Len(groups) |-> DetectedFeature(groups[i])]

\* what one findBlackframeGroups call worked on and returned
Evaluated(lines, strategy, candidateWindows) ==
  [name |-> strategy.name,
   measurements |-> GatedMeasurements(lines, strategy, candidateWindows),
   candidates |-> findBlackframeGroups(lines, strategy, candidateWindows)]

\* goes through every strategy and returns the candidates of the last hit
RECURSIVE StrategyLoop_lastHit(_, _, _)
StrategyLoop_lastHit(lines, candidateWindows, i) ==
  IF i > Len(BOUNDARY_STRATEGIES) THEN [evaluated |-> <<>>, result |-> <<>>]
  ELSE LET candidates == findBlackframeGroups(lines, BOUNDARY_STRATEGIES[i], candidateWindows)
           entry == Evaluated(lines, BOUNDARY_STRATEGIES[i], candidateWindows)
           rest == StrategyLoop_lastHit(lines, candidateWindows, i + 1)
       IN [evaluated |-> <<entry>> \o rest.evaluated,
           result |-> IF Len(rest.result) > 0 THEN rest.result ELSE candidates]

\* the for loop over BOUNDARY_STRATEGIES, from strategy i on
RECURSIVE StrategyLoop(_, _, _)
StrategyLoop(lines, candidateWindows, i) ==
  IF i > Len(BOUNDARY_STRATEGIES) THEN [evaluated |-> <<>>, result |-> <<>>]
  ELSE LET candidates == findBlackframeGroups(lines, BOUNDARY_STRATEGIES[i], candidateWindows)
           entry == Evaluated(lines, BOUNDARY_STRATEGIES[i], candidateWindows)
       IN IF Len(candidates) > 0
          THEN [evaluated |-> <<entry>>, result |-> candidates]
          ELSE LET rest == StrategyLoop(lines, candidateWindows, i + 1)
               IN [evaluated |-> <<entry>> \o rest.evaluated, result |-> rest.result]

\* searches the strategies even when there is no silence
BoundarySearch_noEarlyReturn(lines) ==
  StrategyLoop(lines, CandidateWindows(findSilences(lines)), 1)

\* what detectPotentialBoundaries does with the lines of the pass
BoundarySearch(lines) ==
  LET silences == findSilences(lines)
  IN IF Len(silences) = 0 THEN [evaluated |-> <<>>, result |-> <<>>]
     ELSE StrategyLoop(lines, CandidateWindows(silences), 1)

DetectInit ==
  /\ PostIdle
  /\ CalcIdle
  /\ PairIdle
  /\ outputLines \in [blackframes : BlackframeOutputs, silences : SilenceOutputs]
                     \cup [blackframes : BannerOutputs, silences : SilenceOutputs]
  /\ dpc = "idle"
  /\ evaluated = <<>>
  /\ boundaries = <<>>

\* detectPotentialBoundaries is called: the detection pass is started
detectPotentialBoundaries ==
  /\ dpc = "idle"
  /\ dpc' = "execute"
  /\ UNCHANGED <<reqVars, inFlight, pc, calls, hasThumbnail, keyframeBoundaries, videoBitrate, region,
                 calcVars, outputLines, evaluated, boundaries>>

\* the pass ends with the lines of the recording: they are parsed and the
\* strategies are searched
executeDone ==
  /\ dpc = "execute"
  /\ dpc' = "returned"
  /\ evaluated' = BoundarySearch(outputLines).evaluated
  /\ boundaries' = BoundarySearch(outputLines).result
  /\ UNCHANGED <<reqVars, inFlight, pc, calls, hasThumbnail, keyframeBoundaries, videoBitrate, region,
                 calcVars, outputLines>>

\* detectNewsBanners is called: the banner pass is started
detectNewsBanners ==
  /\ dpc = "idle"
  /\ dpc' = "executeBanners"
  /\ UNCHANGED <<reqVars, inFlight, pc, calls, hasThumbnail, keyframeBoundaries, videoBitrate, region,
                 calcVars, outputLines, evaluated, boundaries>>

\* the banner pass ends: the one strategy is searched with no silence windows
executeBannersDone ==
  /\ dpc = "executeBanners"
  /\ dpc' = "returnedBanners"
  /\ evaluated' = << Evaluated(outputLines, NEWS_BANNER_STRATEGY, <<>>) >>
  /\ boundaries' = findBlackframeGroups(outputLines, NEWS_BANNER_STRATEGY, <<>>)
  /\ UNCHANGED <<reqVars, inFlight, pc, calls, hasThumbnail, keyframeBoundaries, videoBitrate, region,
                 calcVars, outputLines>>

\* the pass fails and the await throws
executeFailed ==
  /\ dpc \in {"execute", "executeBanners"}
  /\ dpc' = "rejected"
  /\ UNCHANGED <<reqVars, inFlight, pc, calls, hasThumbnail, keyframeBoundaries, videoBitrate, region,
                 calcVars, outputLines, evaluated, boundaries>>

DetectNext ==
  \/ detectPotentialBoundaries
  \/ executeDone
  \/ detectNewsBanners
  \/ executeBannersDone
  \/ executeFailed

DetectSpec == DetectInit /\ [][DetectNext]_vars

\* ------------------------------------- smart-trim requests side by side
PairInputs == {"inputPath.mp4", "other.mp4"}
PairOutputs == {"outputPath.mp4", "other.out.mp4"}
\* two requests at a time
Requests == 1..2

\* the path a fragment call writes, if the call is made
Written(issued) == { issued[i].out : i \in 1..Len(issued) }

\* the files the three fragments of request r write
FragmentPaths(r) ==
  Written(copyMidSection(r.inputPath, 0, 1))
  \cup Written(renderStartCap(r.inputPath, 0, r.startSpan, NoArg))
  \cup Written(renderEndCap(r.inputPath, 0, r.endSpan, NoArg))

PairInit ==
  /\ PostIdle
  /\ CalcIdle
  /\ DetectIdle
  /\ inFlight \in [Requests -> [inputPath : PairInputs, outputPath : PairOutputs,
                                startSpan : 0..1, endSpan : 0..1,
                                pc : {"idle"}, written : {{}}]]

PairUnchanged ==
  UNCHANGED <<reqVars, pc, calls, hasThumbnail, keyframeBoundaries, videoBitrate, region,
              calcVars, detectVars>>

\* request i reaches Promise.all: its fragments are started
startFragments(i) ==
  /\ inFlight[i].pc = "idle"
  /\ inFlight' = [inFlight EXCEPT ![i].pc = "parallel",
                                  ![i].written = @ \cup FragmentPaths(inFlight[i])]
  /\ PairUnchanged

\* the fragments of request i are done: the concat is started
startConcat(i) ==
  /\ inFlight[i].pc = "parallel"
  /\ inFlight' = [inFlight EXCEPT ![i].pc = "concatSmartTrimFiles",
                                  ![i].written = @ \cup {temporaryPath(inFlight[i].outputPath)}]
  /\ PairUnchanged

\* the concat of request i is done: the metadata restore is started
startRestore(i) ==
  /\ inFlight[i].pc = "concatSmartTrimFiles"
  /\ inFlight' = [inFlight EXCEPT ![i].pc = "restoreSmartTrimMetadata",
                                  ![i].written = @ \cup {inFlight[i].outputPath}]
  /\ PairUnchanged

\* request i resolves
resolve(i) ==
  /\ inFlight[i].pc = "restoreSmartTrimMetadata"
  /\ inFlight' = [inFlight EXCEPT ![i].pc = "resolved"]
  /\ PairUnchanged

\* a process of request i fails
reject(i) ==
  /\ inFlight[i].pc \in {"parallel", "concatSmartTrimFiles", "restoreSmartTrimMetadata"}
  /\ inFlight' = [inFlight EXCEPT ![i].pc = "rejected"]
  /\ PairUnchanged

PairNext ==
  \E i \in Requests :
    \/ startFragments(i)
    \/ startConcat(i)
    \/ startRestore(i)
    \/ resolve(i)
    \/ reject(i)

PairSpec == PairInit /\ [][PairNext]_vars

\* ---------------------------------------------------------------- claims
SmartTrimRequested == smartTrim /\ Len(cropParameters) = 0

SmartKinds ==
  {"getKeyframeBoundaries", "getBitrate", "copyMidSection", "renderStartCap",
   "renderEndCap", "concatSmartTrimFiles", "restoreSmartTrimMetadata"}

RegionKinds == {"copyMidSection", "renderStartCap", "renderEndCap"}

Status(k) == calls[IndexOf(k)].status

IsTestRequest(s, e) == framesList = TestKeyframes /\ start = s /\ end = e

\* C1: the smart-trim invocations are issued iff smartTrim is true and
\* cropParameters is empty; otherwise the one direct invocation is issued and
\* no probe, render, concat or restore of the smart-trim path ever is.
C1_SmartTrimPathIff ==
  /\ (\E k \in SmartKinds : Issued(k)) => SmartTrimRequested
  /\ Issued("postProcess") => ~SmartTrimRequested
  /\ (Issued("getStreamCount") /\ Status("getStreamCount") = "ok") =>
       /\ Len(calls) >= 2
       /\ calls[2].kind = IF SmartTrimRequested THEN "getKeyframeBoundaries" ELSE "postProcess"

C1_Witness ==
  /\ pc = "resolved"
  /\ smartTrim
  /\ Len(cropParameters) > 0
  /\ Issued("postProcess")

\* C2: on the smart-trim path both probes have completed before a fragment
\* starts, every fragment has completed before the concat starts, and the
\* concat has completed before the metadata restore starts.
C2_StrictOrder ==
  /\ Issued("getBitrate") => Status("getKeyframeBoundaries") = "ok"
  /\ \A k \in RegionKinds :
       Issued(k) => /\ Issued("getKeyframeBoundaries") /\ Status("getKeyframeBoundaries") = "ok"
                    /\ Issued("getBitrate") /\ Status("getBitrate") = "ok"
  /\ Issued("concatSmartTrimFiles") =>
       /\ Issued("copyMidSection")
       /\ \A k \in RegionKinds : Issued(k) => Status(k) = "ok"
  /\ Issued("restoreSmartTrimMetadata") =>
       Issued("concatSmartTrimFiles") /\ Status("concatSmartTrimFiles") = "ok"

C2_Witness ==
  /\ Issued("restoreSmartTrimMetadata")
  /\ Issued("renderStartCap")
  /\ Issued("renderEndCap")

\* C3: postProcessRecording has neither gone on nor rejected to its caller
\* while one of the three fragments of the parallel region is still running.
C3_JoinedAfterAllComplete ==
  pc # "parallel" => \A t \in Tasks : region[t].state # "pending"

\* C4: once a fragment of the parallel region has failed, the call has
\* failed and neither the concat nor the metadata restore is ever issued.
C4_NoPartialConcat ==
  (\E k \in RegionKinds : Issued(k) /\ Status(k) = "failed") =>
    /\ pc = "rejected"
    /\ ~Issued("concatSmartTrimFiles")
    /\ ~Issued("restoreSmartTrimMetadata")

C4_Witness ==
  /\ Issued("renderEndCap") /\ Status("renderEndCap") = "failed"
  /\ Status("copyMidSection") = "ok"
  /\ Issued("renderStartCap") /\ Status("renderStartCap") = "ok"

\* C5: whenever the keyframe boundaries were found, the spans of the start
\* cap, the mid section and the end cap have non-negative length, are
\* disjoint and cover [start, end): start <= first <= last <= end.  Stated
\* for the requests with start < end, where [start, end) is a non-empty span.
C5_SpansPartition ==
  (Issued("copyMidSection") /\ start < end) =>
    /\ start <= keyframeBoundaries[1]
    /\ keyframeBoundaries[1] <= keyframeBoundaries[2]
    /\ keyframeBoundaries[2] <= end
    /\ calls[IndexOf("copyMidSection")].t >= 0

\* C6: a cap of zero duration is neither rendered nor listed in the concat
\* plan, and the mid section and the other cap are issued as usual.
StartCapLine == Line(inputPath \o SMARTTRIM_FILE_SUFFIX_START)
MidLine == Line(inputPath \o SMARTTRIM_FILE_SUFFIX_MID)
EndCapLine == Line(inputPath \o SMARTTRIM_FILE_SUFFIX_END)

Plan == calls[IndexOf("concatSmartTrimFiles")].stdin
InPlan(line) == \E i \in 1..Len(Plan) : Plan[i] = line

C6_ZeroCapSkipped ==
  region["mid"].state # "idle" =>
    /\ Issued("copyMidSection")
    /\ start = keyframeBoundaries[1] =>
         /\ ~Issued("renderStartCap")
         /\ Issued("concatSmartTrimFiles") => ~InPlan(StartCapLine)
    /\ end = keyframeBoundaries[2] =>
         /\ ~Issued("renderEndCap")
         /\ Issued("concatSmartTrimFiles") => ~InPlan(EndCapLine)
    /\ start # keyframeBoundaries[1] =>
         /\ Issued("renderStartCap")
         /\ Issued("concatSmartTrimFiles") => InPlan(StartCapLine)
    /\ end # keyframeBoundaries[2] =>
         /\ Issued("renderEndCap")
         /\ Issued("concatSmartTrimFiles") => InPlan(EndCapLine)
    /\ Issued("concatSmartTrimFiles") => InPlan(MidLine)

C6_Witness ==
  /\ Issued("concatSmartTrimFiles")
  /\ IsTestRequest(146146, 744077)
  /\ ~Issued("renderStartCap")
  /\ Issued("renderEndCap")

\* C7: for start=146130 before the keyframe 146146 (a 16 ms span) and
\* end=744077 no start cap is rendered, the plan is [mid, end cap] and the
\* call makes exactly 7 external invocations.
C7_TooShortCapSkipped ==
  (IsTestRequest(146130, 744077) /\ SmartTrimRequested /\ pc = "resolved") =>
    /\ ~Issued("renderStartCap")
    /\ Plan = << MidLine, "\n", EndCapLine, "\n" >>
    /\ Len(calls) = 7

\* C8: the plan piped to the concat lists the artifacts of this call in the
\* order [start cap if rendered, mid, end cap if rendered], one line
\* file '<path>' and a newline each; the test request 144311..744077 lists
\* all three, with spans 1835, 596596 and 1335 ms.
C8_ConcatPlan ==
  Issued("concatSmartTrimFiles") =>
    /\ Plan = (IF Issued("renderStartCap") THEN << StartCapLine, "\n" >> ELSE <<>>)
              \o << MidLine, "\n" >>
              \o (IF Issued("renderEndCap") THEN << EndCapLine, "\n" >> ELSE <<>>)
    /\ IsTestRequest(144311, 744077) =>
         /\ Plan = << "file 'inputPath.mp4.smarttrim.start'", "\n",
                      "file 'inputPath.mp4.smarttrim.mid'", "\n",
                      "file 'inputPath.mp4.smarttrim.end'", "\n" >>
         /\ calls[IndexOf("renderStartCap")].t = 1835
         /\ calls[IndexOf("copyMidSection")].t = 596596
         /\ calls[IndexOf("renderEndCap")].t = 1335

C8_Witness ==
  /\ Issued("concatSmartTrimFiles")
  /\ IsTestRequest(144311, 744077)
  /\ Len(Plan) = 6

\* C9: the boundaries returned are the smallest probed keyframe >= start
\* and the largest probed keyframe <= end; the test request gives
\* [146146, 742742].
Stamps == { framesList[i] : i \in 1..Len(framesList) }

C9_KeyframeBoundaries ==
  keyframeBoundaries # <<>> =>
    /\ keyframeBoundaries[1] \in Stamps /\ keyframeBoundaries[1] >= start
    /\ \A k \in Stamps : k >= start => keyframeBoundaries[1] <= k
    /\ keyframeBoundaries[2] \in Stamps /\ keyframeBoundaries[2] <= end
    /\ \A k \in Stamps : k <= end => keyframeBoundaries[2] >= k
    /\ IsTestRequest(144311, 744077) => keyframeBoundaries = <<146146, 742742>>

C9_Witness ==
  /\ IsTestRequest(144311, 744077)
  /\ keyframeBoundaries = <<146146, 742742>>

\* C10: when no probed keyframe is >= start or none is <= end, the call
\* fails once the keyframe probe has answered, and no bitrate probe, mid
\* copy, cap render, concat or restore is issued.
NoBoundary ==
  \/ ~\E k \in Stamps : k >= start
  \/ ~\E k \in Stamps : k <= end

C10_NoKeyframeFails ==
  (NoBoundary /\ Issued("getKeyframeBoundaries")
     /\ Status("getKeyframeBoundaries") # "running") =>
    /\ pc = "rejected"
    /\ keyframeBoundaries = <<>>
    /\ \A k \in SmartKinds \ {"getKeyframeBoundaries"} : ~Issued(k)

C10_Witness ==
  /\ NoBoundary
  /\ Issued("getKeyframeBoundaries")
  /\ Status("getKeyframeBoundaries") = "ok"
  /\ pc = "rejected"

\* ------------------------------------------------------- the direct path
DirectCall == calls[IndexOf("postProcess")]
DirectArgs == DirectCall.args

HasArg(args, a) == \E i \in 1..Len(args) : args[i] = a
HasPair(args, a, b) == \E i \in 1..(Len(args) - 1) : args[i] = a /\ args[i + 1] = b
ArgAfter(args, a) == args[(CHOOSE i \in 1..(Len(args) - 1) : args[i] = a) + 1]

FfmpegCalls == { i \in 1..Len(calls) : calls[i].cmd = "ffmpeg" }

IsDirectTestRequest == start = DirectTestStart /\ end = DirectTestEnd

\* C11 as stated: with no smart trim and no crop samples the one render
\* invocation carries -ss start/1000, -to end/1000, stream-copy codecs and no
\* filter graph, with or without an embedded thumbnail.
C11_NoFilterGraphEver ==
  (Issued("postProcess") /\ ~smartTrim /\ cropParameters = <<>>) =>
    /\ Cardinality(FfmpegCalls) = 1
    /\ HasPair(DirectArgs, "-ss", FormatSeconds(start))
    /\ HasPair(DirectArgs, "-to", FormatSeconds(end))
    /\ HasPair(DirectArgs, "-codec", "copy")
    /\ HasPair(DirectArgs, "-map", "0:0")
    /\ HasPair(DirectArgs, "-map", "0:1")
    /\ ~HasArg(DirectArgs, "-filter_complex")

\* C11 amended: with no smart trim, no crop samples and a non-zero end the
\* one render invocation carries -ss start/1000, -to end/1000 and stream-copy
\* codecs; it has no filter graph iff the source has no embedded thumbnail,
\* and with one the graph is the thumbnail PTS shift alone.
C11_DirectCopyArguments ==
  (Issued("postProcess") /\ ~smartTrim /\ cropParameters = <<>> /\ end # 0) =>
    /\ Cardinality(FfmpegCalls) = 1
    /\ HasPair(DirectArgs, "-ss", FormatSeconds(start))
    /\ HasPair(DirectArgs, "-to", FormatSeconds(end))
    /\ HasPair(DirectArgs, "-codec", "copy")
    /\ HasPair(DirectArgs, "-map", "0:0")
    /\ HasPair(DirectArgs, "-map", "0:1")
    /\ HasArg(DirectArgs, "-filter_complex") <=> DirectCall.thumb
    /\ DirectCall.thumb =>
         HasPair(DirectArgs, "-filter_complex",
                 "[1:2]setpts=PTS+" \o FormatSeconds(start) \o "/TB[tn]")
    /\ (IsDirectTestRequest /\ ~DirectCall.thumb) =>
         DirectArgs = << "-y", "-i", "inputPath.mp4", "-ss", "124.687", "-to", "367.11",
                         "-codec", "copy", "-map", "0:0", "-map", "0:1",
                         "-map_metadata", "0", "-f", "mp4", "outputPath.mp4" >>

C11_Witness ==
  /\ pc = "resolved"
  /\ Issued("postProcess")
  /\ ~smartTrim /\ cropParameters = <<>>
  /\ IsDirectTestRequest
  /\ DirectCall.thumb

\* C12: a successful call makes 2 execute() calls on the direct path and
\* 6 + c on the smart-trim path, c being the number of caps of non-zero
\* span; every invocation is issued exactly once.
AllKinds == SmartKinds \cup {"getStreamCount", "postProcess"}

CapsRendered ==
  (IF Issued("renderStartCap") THEN 1 ELSE 0) + (IF Issued("renderEndCap") THEN 1 ELSE 0)

CapsDue ==
  (IF start # keyframeBoundaries[1] THEN 1 ELSE 0)
  + (IF end # keyframeBoundaries[2] THEN 1 ELSE 0)

C12_InvocationCount ==
  /\ \A k \in AllKinds : Cardinality(Kinds(k)) <= 1
  /\ pc = "resolved" =>
       IF SmartTrimRequested
       THEN /\ Len(calls) = 6 + CapsRendered
            /\ CapsRendered = CapsDue
            /\ \A k \in SmartKinds \ {"renderStartCap", "renderEndCap"} : Issued(k)
            /\ Issued("getStreamCount") /\ ~Issued("postProcess")
       ELSE /\ Len(calls) = 2
            /\ calls[1].kind = "getStreamCount"
            /\ calls[2].kind = "postProcess"
            /\ Cardinality(FfmpegCalls) = 1

C12_Witness ==
  /\ pc = "resolved"
  /\ SmartTrimRequested
  /\ Len(calls) = 7
  /\ ~Issued("renderEndCap")

\* C13: for ascending crop samples the compiled expression of the overlay
\* offset and of the scale width evaluates at time T to the value of the
\* sample with the greatest time <= T, and to the last sample's value from
\* its time on; the samples (156800,1728),(260000,1920) compile to
\* if(gte(t,260),1920,if(gte(t,156.8),2134,1920)) for the scale width.
Quantities == {"overlay", "scale"}

SampleAt(crop, t) ==
  CHOOSE i \in 1..Len(crop) :
    /\ crop[i].time <= t
    /\ \A j \in 1..Len(crop) : crop[j].time <= t => crop[j].time <= crop[i].time

TestCrop ==
  << [time |-> 156800, width |-> 1728], [time |-> 260000, width |-> 1920] >>

C13_TimeSequenceValue ==
  (Issued("postProcess") /\ Len(cropParameters) > 0) =>
    /\ \A q \in Quantities : \A t \in QueryTimes :
         LET e == generateTimeSequence(q, cropParameters)
         IN /\ (\E i \in 1..Len(cropParameters) : cropParameters[i].time <= t) =>
                 EvalTimeSequence(e, t)
                   = calcValue(q, cropParameters[SampleAt(cropParameters, t)].width)
            /\ t >= cropParameters[Len(cropParameters)].time =>
                 EvalTimeSequence(e, t)
                   = calcValue(q, cropParameters[Len(cropParameters)].width)
    /\ cropParameters = TestCrop =>
         /\ TimeSequenceText(generateTimeSequence("scale", cropParameters))
              = "if(gte(t,260),1920,if(gte(t,156.8),2134,1920))"
         /\ (IsDirectTestRequest /\ DirectCall.thumb) =>
              ArgAfter(DirectArgs, "-filter_complex")
                = "nullsrc=size=1920x1080:r=29.97[base];[base][0:0]overlay='if(gte(t,260),0,if(gte(t,156.8),-96,0))':0:shortest=1[o];[o]scale='if(gte(t,260),1920,if(gte(t,156.8),2134,1920))':-1:eval=frame:flags=bicubic[s];[s]crop=1920:1080:0:0[c];[1:2]setpts=PTS+124.687/TB[tn]"

C13_Witness ==
  /\ Issued("postProcess")
  /\ cropParameters = TestCrop
  /\ IsDirectTestRequest
  /\ DirectCall.thumb

\* C15: generateFilterChain gives no filter graph iff there are no crop
\* samples and no thumbnail; with a thumbnail the graph ends with the PTS
\* shift by start/1000; with crop samples the base canvas, overlay, scale and
\* crop stages come first, in that order.
CropGraph ==
  "nullsrc=size=1920x1080:r=29.97[base];[base][0:0]overlay='"
  \o TimeSequenceText(generateTimeSequence("overlay", cropParameters))
  \o "':0:shortest=1[o];[o]scale='"
  \o TimeSequenceText(generateTimeSequence("scale", cropParameters))
  \o "':-1:eval=frame:flags=bicubic[s];[s]crop=1920:1080:0:0[c]"

ThumbnailGraph == "[1:2]setpts=PTS+" \o FormatSeconds(start) \o "/TB[tn]"

C15_FilterChain ==
  Issued("postProcess") =>
    /\ ~HasArg(DirectArgs, "-filter_complex")
         <=> (Len(cropParameters) = 0 /\ ~DirectCall.thumb)
    /\ (Len(cropParameters) = 0 /\ DirectCall.thumb) =>
         ArgAfter(DirectArgs, "-filter_complex") = ThumbnailGraph
    /\ (Len(cropParameters) > 0 /\ DirectCall.thumb) =>
         ArgAfter(DirectArgs, "-filter_complex") = CropGraph \o ";" \o ThumbnailGraph
    /\ (Len(cropParameters) > 0 /\ ~DirectCall.thumb) =>
         ArgAfter(DirectArgs, "-filter_complex") = CropGraph
    /\ (IsDirectTestRequest /\ DirectCall.thumb
          /\ cropParameters = << [time |-> 0, width |-> 1728] >>) =>
         ArgAfter(DirectArgs, "-filter_complex")
           = "nullsrc=size=1920x1080:r=29.97[base];[base][0:0]overlay='-96':0:shortest=1[o];[o]scale='2134':-1:eval=frame:flags=bicubic[s];[s]crop=1920:1080:0:0[c];[1:2]setpts=PTS+124.687/TB[tn]"

C15_Witness ==
  /\ Issued("postProcess")
  /\ IsDirectTestRequest
  /\ DirectCall.thumb
  /\ cropParameters = << [time |-> 0, width |-> 1728] >>

\* C14: the scale width is round(1920 * 1920 / w / 2) * 2, an even integer,
\* for every crop width w in 1..1920, and 1920 for w = 1920; the overlay
\* offset is round((w - 1920) / 2); w = 1728 gives 2134 and -96.
C14_ScaleWidthEven ==
  scaleWidth # NoArg =>
    /\ scaleWidth % 2 = 0
    /\ LET k == scaleWidth \div 2
       IN /\ (2 * k - 1) * cropWidth <= FULL_CROP_WIDTH * FULL_CROP_WIDTH
          /\ FULL_CROP_WIDTH * FULL_CROP_WIDTH < (2 * k + 1) * cropWidth
    /\ 2 * overlayPosition - 1 <= cropWidth - FULL_CROP_WIDTH
    /\ cropWidth - FULL_CROP_WIDTH < 2 * overlayPosition + 1
    /\ cropWidth = FULL_CROP_WIDTH => scaleWidth = FULL_CROP_WIDTH /\ overlayPosition = 0
    /\ cropWidth = 1728 => scaleWidth = 2134 /\ overlayPosition = -96

C14_Witness ==
  /\ cropWidth = 1728
  /\ scaleWidth = 2134
  /\ overlayPosition = -96

\* ------------------------------------------------ the boundary detector
Windows == CandidateWindows(findSilences(outputLines))
HasLine(filterNum) ==
  \E j \in 1..Len(outputLines.blackframes) : outputLines.blackframes[j].filterNum = filterNum
WouldHit(i) == Len(findBlackframeGroups(outputLines, BOUNDARY_STRATEGIES[i], Windows)) > 0

\* C16: when the pass prints no silence line, detectPotentialBoundaries returns
\* the empty sequence and evaluates no strategy, whatever blackframe lines
\* there are
C16_NoSilenceNoSearch ==
  (dpc = "returned" /\ Len(outputLines.silences) = 0)
    => (boundaries = <<>> /\ evaluated = <<>>)

\* no silence, and a newsline measurement that the newsline strategy accepts
C16_Witness ==
  /\ dpc = "returned"
  /\ Len(outputLines.silences) = 0
  /\ HasLine(22)
  /\ Len(findBlackframeGroups(outputLines, BOUNDARY_STRATEGIES[7], <<>>)) > 0
  /\ boundaries = <<>>
  /\ evaluated = <<>>

ListOrder ==
  << "black-logo", "white-logo", "white-borders-logo", "black-logo-ai-subtitles",
     "black-no-logo-ai-subtitles", "no-logo", "newsline" >>

\* C17: with at least one silence the strategies are evaluated in list order
\* up to the first one with candidates, whose candidates are the result; none
\* after it is evaluated, and the result is empty iff no strategy has candidates
C17_FirstHitWins ==
  (dpc = "returned" /\ Len(outputLines.silences) > 0) =>
    /\ Len(evaluated) \in 1..Len(ListOrder)
    /\ \A i \in 1..Len(evaluated) : evaluated[i].name = ListOrder[i]
    /\ \A i \in 1..(Len(evaluated) - 1) : evaluated[i].candidates = <<>>
    /\ boundaries = evaluated[Len(evaluated)].candidates
    /\ Len(evaluated) < Len(ListOrder) => boundaries # <<>>
    /\ boundaries = <<>> <=> \A i \in 1..Len(BOUNDARY_STRATEGIES) : ~WouldHit(i)
    /\ boundaries # <<>> =>
         /\ WouldHit(Len(evaluated))
         /\ \A i \in 1..(Len(evaluated) - 1) : ~WouldHit(i)

\* black-logo hits inside a two-second silence while newsline would hit too
C17_Witness ==
  /\ dpc = "returned"
  /\ outputLines.silences = <<[endTime |-> 2000, duration |-> 2000]>>
  /\ Len(evaluated) = 1
  /\ evaluated[1].name = "black-logo"
  /\ boundaries # <<>>
  /\ WouldHit(7)

InsideSilence(time, silence) == silence.startTime <= time /\ time <= silence.endTime
SilencesAround(time) ==
  { j \in 1..Len(outputLines.silences) : InsideSilence(time, findSilences(outputLines)[j]) }
SilenceLength(j) ==
  findSilences(outputLines)[j].endTime - findSilences(outputLines)[j].startTime

\* C18: no returned feature begins or ends with a measurement that lies inside
\* silences all shorter than the strategy's minSilenceSeconds
C18_ShortSilenceDropped ==
  dpc = "returned" =>
    \A i \in 1..Len(evaluated) :
      \A k \in 1..Len(evaluated[i].candidates) :
        \A time \in {evaluated[i].candidates[k].start, evaluated[i].candidates[k].end} :
          ~ /\ SilencesAround(time) # {}
            /\ \A j \in SilencesAround(time) :
                 SilenceLength(j) < BOUNDARY_STRATEGIES[i].minSilenceSeconds

Measured(i) == GatedMeasurements(outputLines, BOUNDARY_STRATEGIES[i], Windows)
Ordered(G) ==
  \A j \in 1..(Len(G) - 1) :
    \/ G[j].filterNum < G[j + 1].filterNum
    \/ G[j].filterNum = G[j + 1].filterNum /\ G[j].frameNum < G[j + 1].frameNum
Distance(a, b) == IF a < b THEN b - a ELSE a - b
RunStart(s, G, j) ==
  \/ j = 1
  \/ G[j].filterNum # G[j - 1].filterNum
  \/ Distance(G[j].frameNum, G[j - 1].frameNum) > Nullish(s.maxSkip, 1)
RunEnd(s, G, j) ==
  CHOOSE k \in j..Len(G) :
    /\ \A x \in (j + 1)..k : ~RunStart(s, G, x)
    /\ k = Len(G) \/ RunStart(s, G, k + 1)
Surviving(s, G) ==
  { j \in 1..Len(G) : RunStart(s, G, j) /\ RunEnd(s, G, j) - j + 1 >= s.minFrames }

\* C19: for ordered gated measurements the features of a strategy are, in run
\* order, the maximal runs of one filter whose consecutive frame numbers differ
\* by at most maxSkip and that have at least minFrames measurements
C19_MaximalRuns ==
  dpc = "returned" =>
    \A i \in 1..Len(evaluated) :
      LET s == BOUNDARY_STRATEGIES[i]
          G == Measured(i)
          c == evaluated[i].candidates
      IN Ordered(G) =>
           /\ Len(c) = Cardinality(Surviving(s, G))
           /\ \A j \in Surviving(s, G) :
                c[Cardinality({ x \in Surviving(s, G) : x <= j })] =
                  [start |-> G[j].time, end |-> G[RunEnd(s, G, j)].time,
                   firstFrame |-> G[j].frameNum, lastFrame |-> G[RunEnd(s, G, j)].frameNum]

\* no-logo: ordered measurements in two runs, one kept and one too short
C19_Witness ==
  /\ dpc = "returned"
  /\ Len(evaluated) >= 6
  /\ Ordered(Measured(6))
  /\ Cardinality({ j \in 1..Len(Measured(6)) : RunStart(BOUNDARY_STRATEGIES[6], Measured(6), j) }) = 2
  /\ Len(evaluated[6].candidates) = 1
  /\ evaluated[6].candidates[1].lastFrame - evaluated[6].candidates[1].firstFrame = 2

\* ------------------------------------------ requests running side by side
Running(i) ==
  inFlight[i].pc \in {"parallel", "concatSmartTrimFiles", "restoreSmartTrimMetadata"}
Artifacts(i) == inFlight[i].written \ {inFlight[i].outputPath}

\* C21: two running smart-trim requests whose (inputPath, outputPath) pairs
\* differ have written no temporary file in common
C21_DisjointArtifacts ==
  \A i \in Requests : \A j \in Requests :
    ( /\ i # j
      /\ Running(i) /\ Running(j)
      /\ <<inFlight[i].inputPath, inFlight[i].outputPath>>
           # <<inFlight[j].inputPath, inFlight[j].outputPath>> )
    => Artifacts(i) \cap Artifacts(j) = {}

\* ------------------------------------------------------------ failures
Failed == { i \in 1..Len(calls) : calls[i].status = "failed" }

\* C22: every invocation is issued at most once per call; a failed invocation
\* rejects the call, in the step of the failure and ever after no new
\* invocation is started, and the invocations made and the files they wrote
\* stay as they are: none is retried, none is removed
C22_NoRetryNoRecovery ==
  /\ [](/\ \A k \in AllKinds : Cardinality(Kinds(k)) <= 1
        /\ \A i \in 1..Len(calls) : calls[i].cmd \in {"ffmpeg", "ffprobe"}
        /\ Failed # {} => pc = "rejected")
  /\ [][/\ ({ i \in 1..Len(calls') : calls'[i].status = "failed" } # {})
             => Len(calls') = Len(calls)
        /\ Len(calls') >= Len(calls)
        /\ \A i \in 1..Len(calls) :
             /\ calls'[i].kind = calls[i].kind
             /\ calls'[i].out = calls[i].out
             /\ calls[i].status = "failed" => calls'[i].status = "failed"]_vars

\* the mid copy failed while the start cap was still being rendered
C22_Witness ==
  /\ pc = "rejected"
  /\ Issued("copyMidSection") /\ calls[IndexOf("copyMidSection")].status = "failed"
  /\ Issued("renderStartCap") /\ calls[IndexOf("renderStartCap")].status # "failed"
  /\ ~Issued("concatSmartTrimFiles")

\* ------------------------------------------- sorting, gating, features
Among(list, x) == \E j \in 1..Len(list) : list[j] = x
LinesOf(filters) ==
  { j \in 1..Len(outputLines.blackframes) : outputLines.blackframes[j].filterNum \in filters }
StrategyOf(i) ==
  IF dpc = "returnedBanners" THEN NEWS_BANNER_STRATEGY ELSE BOUNDARY_STRATEGIES[i]

\* C23: whatever the order of the lines, the measurements a strategy groups
\* are in ascending (filterNum, frameNum) order
C23_SortedBeforeGrouping ==
  dpc = "returned" =>
    \A i \in 1..Len(evaluated) : Ordered(evaluated[i].measurements)

\* C24: a measurement outside every silence is kept by a boundary strategy iff
\* its minSilenceSeconds is 0 or unset, so by newsline alone, and the banner
\* search keeps every filter-13 measurement
C24_OutsideSilenceGate ==
  /\ dpc = "returned" =>
       \A i \in 1..Len(evaluated) : \A j \in LinesOf(BOUNDARY_STRATEGIES[i].filters) :
         SilencesAround(outputLines.blackframes[j].time) = {} =>
           /\ Among(evaluated[i].measurements, outputLines.blackframes[j])
                <=> Nullish(BOUNDARY_STRATEGIES[i].minSilenceSeconds, 0) = 0
           /\ Among(evaluated[i].measurements, outputLines.blackframes[j])
                <=> evaluated[i].name = "newsline"
  /\ dpc = "returnedBanners" =>
       /\ Len(evaluated) = 1
       /\ evaluated[1].name = "news-banner-background"
       /\ Len(evaluated[1].measurements) = Cardinality(LinesOf({13}))
       /\ \A j \in LinesOf({13}) :
            Among(evaluated[1].measurements, outputLines.blackframes[j])

\* outside the one silence no-logo dropped a measurement and newsline kept one
C24_Witness ==
  /\ dpc = "returned"
  /\ Len(evaluated) = 7
  /\ \E j \in LinesOf({20}) :
       /\ SilencesAround(outputLines.blackframes[j].time) = {}
       /\ ~Among(evaluated[6].measurements, outputLines.blackframes[j])
  /\ \E j \in LinesOf({22}) :
       /\ SilencesAround(outputLines.blackframes[j].time) = {}
       /\ Among(evaluated[7].measurements, outputLines.blackframes[j])
  /\ Len(outputLines.silences) = 1

FeatureFrames(c) == c.firstFrame..c.lastFrame

\* C30: every returned feature has start <= end and firstFrame <= lastFrame,
\* begins and ends with measurements of one filter of the strategy, spans at
\* least minFrames of its measurements, and shares no frame with another
\* feature of the same search
C30_FeatureWellFormed ==
  dpc \in {"returned", "returnedBanners"} =>
    \A i \in 1..Len(evaluated) : \A k \in 1..Len(evaluated[i].candidates) :
      LET c == evaluated[i].candidates[k]
          G == evaluated[i].measurements
      IN /\ c.start <= c.end
         /\ c.firstFrame <= c.lastFrame
         /\ \E f \in StrategyOf(i).filters :
              /\ Among(G, [filterNum |-> f, frameNum |-> c.firstFrame, time |-> c.start])
              /\ Among(G, [filterNum |-> f, frameNum |-> c.lastFrame, time |-> c.end])
              /\ Cardinality({ j \in 1..Len(G) : /\ G[j].filterNum = f
                                                 /\ G[j].frameNum \in FeatureFrames(c) })
                   >= StrategyOf(i).minFrames
         /\ \A k2 \in 1..Len(evaluated[i].candidates) :
              k2 # k => FeatureFrames(c) \cap FeatureFrames(evaluated[i].candidates[k2]) = {}

\* ------------------------------------------- the direct path's arguments
\* C25: with crop samples the direct invocation maps '[c]' with -crf 19,
\* -preset veryfast and -codec:v:0 libx264 and does not map '0:0'; without
\* them it maps '0:0' and names no libx264; either way it maps audio '0:1',
\* has -map_metadata 0 and ends with outputPath
C25_VideoArguments ==
  Issued("postProcess") =>
    /\ Len(cropParameters) > 0 =>
         /\ HasPair(DirectArgs, "-map", "[c]")
         /\ HasPair(DirectArgs, "-crf", "19")
         /\ HasPair(DirectArgs, "-preset", "veryfast")
         /\ HasPair(DirectArgs, "-codec:v:0", "libx264")
         /\ ~HasPair(DirectArgs, "-map", "0:0")
    /\ Len(cropParameters) = 0 =>
         /\ HasPair(DirectArgs, "-map", "0:0")
         /\ ~HasArg(DirectArgs, "libx264")
         /\ ~HasArg(DirectArgs, "[c]")
    /\ HasPair(DirectArgs, "-map", "0:1")
    /\ HasPair(DirectArgs, "-map_metadata", "0")
    /\ DirectArgs[Len(DirectArgs)] = outputPath
    /\ (IsDirectTestRequest /\ DirectCall.thumb
          /\ cropParameters = << [time |-> 0, width |-> 1728] >>) =>
         DirectArgs =
           << "-y", "-i", "inputPath.mp4", "-i", "inputPath.mp4", "-ss", "124.687",
              "-to", "367.11", "-codec", "copy", "-filter_complex",
              "nullsrc=size=1920x1080:r=29.97[base];[base][0:0]overlay='-96':0:shortest=1[o];[o]scale='2134':-1:eval=frame:flags=bicubic[s];[s]crop=1920:1080:0:0[c];[1:2]setpts=PTS+124.687/TB[tn]",
              "-map", "[c]", "-crf", "19", "-preset", "veryfast", "-codec:v:0", "libx264",
              "-map", "0:1", "-map", "[tn]", "-codec:v:1", "mjpeg",
              "-disposition:v:1", "attached_pic", "-map_metadata", "0", "-f", "mp4",
              "outputPath.mp4" >>

\* a finished re-encode of the constant crop, with the thumbnail stream
C25_Witness ==
  /\ pc = "resolved"
  /\ Issued("postProcess")
  /\ IsDirectTestRequest
  /\ DirectCall.thumb
  /\ cropParameters = << [time |-> 0, width |-> 1728] >>
  /\ HasPair(DirectArgs, "-codec:v:0", "libx264")

KeyframeUpTo(e) == \E i \in 1..Len(framesList) : framesList[i] <= e

\* C26: the direct invocation has '-to end/1000' iff end is not 0, and always
\* '-ss start/1000'; a smart-trim request goes past the keyframe probe only
\* with a keyframe at or before end, and is rejected there otherwise
C26_EndBound ==
  /\ Issued("postProcess") =>
       /\ HasArg(DirectArgs, "-to") <=> end # 0
       /\ end # 0 => HasPair(DirectArgs, "-to", FormatSeconds(end))
       /\ HasPair(DirectArgs, "-ss", FormatSeconds(start))
       /\ Cardinality(FfmpegCalls) = 1
  /\ (SmartTrimRequested /\ Issued("getKeyframeBoundaries")
        /\ calls[IndexOf("getKeyframeBoundaries")].status = "ok") =>
       IF KeyframeUpTo(end)
       THEN Issued("getBitrate") => keyframeBoundaries[2] <= end
       ELSE pc = "rejected" /\ ~Issued("getBitrate")

\* a finished direct call with end 0 and no end bound
C26_Witness ==
  /\ pc = "resolved"
  /\ Issued("postProcess")
  /\ end = 0
  /\ ~HasArg(DirectArgs, "-to")
  /\ HasPair(DirectArgs, "-ss", FormatSeconds(start))

\* ------------------------------------------------- the parallel region
FragmentKinds == {"copyMidSection", "renderStartCap", "renderEndCap"}
FragmentCalls(list) == { i \in 1..Len(list) : list[i].kind \in FragmentKinds }

Writers == { i \in 1..Len(calls) : calls[i].out = outputPath }

\* C28: outputPath is the target of the last invocation of a call alone, the
\* metadata restore on the smart-trim path and the one ffmpeg run on the
\* direct path; the concat writes outputPath.smarttrim.FINAL.mp4 and the
\* fragments write inputPath.smarttrim.mid, .start and .end; when an
\* invocation targets outputPath every earlier one has ended well
C28_OutputWrittenLast ==
  /\ \A i \in Writers :
       /\ i = Len(calls)
       /\ calls[i].kind = IF SmartTrimRequested THEN "restoreSmartTrimMetadata"
                          ELSE "postProcess"
       /\ \A j \in 1..(i - 1) : calls[j].status = "ok"
  /\ Issued("restoreSmartTrimMetadata") \/ Issued("postProcess") => Writers # {}
  /\ \A i \in 1..Len(calls) :
       /\ calls[i].kind = "concatSmartTrimFiles"
            => calls[i].out = outputPath \o ".smarttrim.FINAL.mp4"
       /\ calls[i].kind = "copyMidSection" => calls[i].out = inputPath \o ".smarttrim.mid"
       /\ calls[i].kind = "renderStartCap" => calls[i].out = inputPath \o ".smarttrim.start"
       /\ calls[i].kind = "renderEndCap" => calls[i].out = inputPath \o ".smarttrim.end"
  /\ (pc = "rejected" /\ \E i \in 1..Len(calls) :
        calls[i].status = "failed"
        /\ calls[i].kind \notin {"restoreSmartTrimMetadata", "postProcess"})
       => Writers = {}

\* the restore of a smart-trim call is running, after a concat into the
\* temporary file
C28_Witness ==
  /\ pc = "restoreSmartTrimMetadata"
  /\ Writers = {Len(calls)}
  /\ Issued("concatSmartTrimFiles")
  /\ calls[IndexOf("concatSmartTrimFiles")].out = "outputPath.mp4.smarttrim.FINAL.mp4"

\* ------------------------------------------- before the first crop sample
LateCrop == << [time |-> 156800, width |-> 1728] >>

\* C29: when the first crop sample's time is above 0 the compiled expressions
\* give, at every time before it, the full-frame values (scale width 1920,
\* overlay offset 0); a first sample at time 0 is the innermost value and its
\* own width applies from time 0 to the next sample
C29_BeforeFirstSample ==
  (Issued("postProcess") /\ Len(cropParameters) > 0) =>
    /\ cropParameters[1].time > 0 =>
         /\ \A t \in QueryTimes :
              t < cropParameters[1].time =>
                /\ EvalTimeSequence(generateTimeSequence("scale", cropParameters), t) = 1920
                /\ EvalTimeSequence(generateTimeSequence("overlay", cropParameters), t) = 0
         /\ generateTimeSequence("scale", cropParameters).default = 1920
         /\ generateTimeSequence("overlay", cropParameters).default = 0
    /\ cropParameters[1].time = 0 =>
         \A q \in Quantities :
           /\ generateTimeSequence(q, cropParameters).default
                = calcValue(q, cropParameters[1].width)
           /\ Len(generateTimeSequence(q, cropParameters).clauses) = Len(cropParameters) - 1
           /\ \A t \in QueryTimes :
                (Len(cropParameters) = 1 \/ t < cropParameters[2].time) =>
                  EvalTimeSequence(generateTimeSequence(q, cropParameters), t)
                    = calcValue(q, cropParameters[1].width)
    /\ (cropParameters = LateCrop /\ ~DirectCall.thumb) =>
         ArgAfter(DirectArgs, "-filter_complex")
           = "nullsrc=size=1920x1080:r=29.97[base];[base][0:0]overlay='if(gte(t,156.8),-96,0)':0:shortest=1[o];[o]scale='if(gte(t,156.8),2134,1920)':-1:eval=frame:flags=bicubic[s];[s]crop=1920:1080:0:0[c]"

\* one crop sample at 156.8 s, narrower than the frame
C29_Witness ==
  /\ Issued("postProcess")
  /\ cropParameters = LateCrop
  /\ ~DirectCall.thumb
  /\ HasArg(DirectArgs, "-filter_complex")
====
